---- MODULE Spec2Model ----
(***************************************************************************)
(* Model of the HTTP service shell: the unified logging shim               *)
(* (src/src/utils/logger.py), the CORS origin configuration                *)
(* (src/src/config/app.py) and the request pipeline with its exception     *)
(* handlers (src/server.py).                                               *)
(***************************************************************************)
EXTENDS Integers, Sequences, FiniteSets, TLC

VARIABLES
    sinks,        \* loguru's registered handlers (sinks)
    nextSinkId,   \* loguru's handler id counter
    stdLoggers,   \* the standard logging registry: name -> handlers, level, propagate
    setups,       \* number of setup_logging calls so far
    lastLevel,    \* level argument of the last setup_logging call
    out,          \* lines written by the last logging call
    lastCall,     \* the last logging call: what was logged and through which facility
    env,          \* the process environment: LOG_LEVEL, ALLOWED_ORIGINS, pyproject.toml
    ALLOWED_ORIGINS, \* config.app.ALLOWED_ORIGINS
    APP_VERSION,  \* server.APP_VERSION
    bootLog,      \* lines written while server.py is imported
    pc,           \* "boot", "crashed", "idle", "down", "up", "done"
    req,          \* the request being handled
    pos,          \* index in the middleware stack of the stage holding the request
    exc,          \* the exception propagating up the stack
    thrown,       \* the exception the router or the route handler raised for this request
    resp,         \* the response travelling up the stack
    corsWrapped,  \* CORSMiddleware wrapped send for this request
    visited,      \* the stages the request entered, in order
    log,          \* lines written while the request is handled
    client        \* what the caller received

logvars == <<sinks, nextSinkId, stdLoggers, setups, lastLevel, out, lastCall>>
bootvars == <<env, ALLOWED_ORIGINS, APP_VERSION, bootLog>>
reqvars == <<req, pos, exc, thrown, resp, corsWrapped, visited, log, client>>
vars == <<sinks, nextSinkId, stdLoggers, setups, lastLevel, out, lastCall,
          env, ALLOWED_ORIGINS, APP_VERSION, bootLog,
          pc, req, pos, exc, thrown, resp, corsWrapped, visited, log, client>>

(***************************************************************************)
(* Bounds                                                                  *)
(***************************************************************************)
MaxSetups == 2

(***************************************************************************)
(* Levels                                                                  *)
(***************************************************************************)
None == "None"

\* the levels setup_logging documents for its argument
ConfigLevels == {"DEBUG", "INFO", "WARNING", "ERROR"}

\* getattr(logging, level) and loguru's numbers for the same names
LevelNo(name) ==
    CASE name = "DEBUG" -> 10
      [] name = "INFO" -> 20
      [] name = "WARNING" -> 30
      [] name = "ERROR" -> 40
      [] name = "CRITICAL" -> 50
      [] OTHER -> 0

\* level names loguru knows (those a standard record can carry)
LoguruLevelNames == {"DEBUG", "INFO", "WARNING", "ERROR", "CRITICAL"}

\* loguru's name and number for a standard record's level: logger.level(name)
\* when loguru knows the name, else the record's numeric level ("Level <n>")
LoguruLevel(levelname, levelno) ==
    IF levelname \in LoguruLevelNames
    THEN [name |-> levelname, no |-> LevelNo(levelname)]
    ELSE [name |-> "Level", no |-> levelno]

\* number of characters of a rendered level name ("Level <nn>" has 8)
LevelNameLen(level) ==
    CASE level.name = "DEBUG" -> 5
      [] level.name = "INFO" -> 4
      [] level.name = "WARNING" -> 7
      [] level.name = "ERROR" -> 5
      [] level.name = "CRITICAL" -> 8
      [] OTHER -> 8

\* the width of "{level: <8}"
LevelPad == 8

PadWidth(level) == IF LevelNameLen(level) < LevelPad THEN LevelPad ELSE LevelNameLen(level)

(***************************************************************************)
(* The standard logging registry                                           *)
(***************************************************************************)
logger_names == <<"uvicorn", "uvicorn.access", "uvicorn.error", "fastapi", "asyncio">>

noisy_logger_names ==
    <<"httpx", "httpcore", "httpcore.connection", "httpcore.http11", "httpcore.http2",
      "urllib3", "urllib3.connectionpool">>

Range(s) == {s[i] : i \in DOMAIN s}

\* "app.service" stands for any standard logger setup_logging does not name
LoggerNames == {"root", "app.service"} \cup Range(logger_names) \cup Range(noisy_logger_names)

\* the dotted-name hierarchy of the standard logging module
Parent(n) ==
    CASE n = "root" -> None
      [] n \in {"uvicorn.access", "uvicorn.error"} -> "uvicorn"
      [] n \in {"httpcore.connection", "httpcore.http11", "httpcore.http2"} -> "httpcore"
      [] n = "urllib3.connectionpool" -> "urllib3"
      [] OTHER -> "root"

\* the registry of a fresh interpreter: no handlers, root at WARNING
FreshRegistry ==
    [n \in LoggerNames |->
        [handlers |-> <<>>,
         level |-> IF n = "root" THEN LevelNo("WARNING") ELSE 0,
         propagate |-> TRUE]]

\* loguru starts with its default stderr sink, id 0
FreshSinks == {[id |-> 0, levelno |-> LevelNo("DEBUG"), format |-> "default", stream |-> "stderr"]}

(***************************************************************************)
(* format_record and the sink                                              *)
(***************************************************************************)
\* format_record as it would be with the exception field in the template
format_record_with_exception(record) ==
    [fields |-> <<"time", "level", "logger_name", "function", "line", "message", "exception">>,
     logger_name |-> IF record.extra_name # None THEN record.extra_name ELSE record.name]

\* the template format_record returns: the fields it names, and the logger
\* name it writes into the template (the bound name, else the record's)
format_record(record) ==
    [fields |-> <<"time", "level", "logger_name", "function", "line", "message">>,
     logger_name |-> IF record.extra_name # None THEN record.extra_name ELSE record.name]

\* loguru's default string format; "\n{exception}" is appended to a string format
default_format(record) ==
    [fields |-> <<"time", "level", "logger_name", "function", "line", "message", "exception">>,
     logger_name |-> record.name]

\* one sink formatting and writing one record
SinkLine(sink, record) ==
    LET t == IF sink.format = "format_record" THEN format_record(record)
             ELSE default_format(record)
    IN [via |-> "loguru",
        sink |-> sink.id,
        stream |-> sink.stream,
        shape |-> t.fields,
        logger_name |-> t.logger_name,
        level |-> record.level.name,
        levelno |-> record.level.no,
        width |-> PadWidth(record.level),
        function |-> record.function,
        line |-> record.line,
        message |-> record.message,
        trace |-> record.exception /\ (\E i \in DOMAIN t.fields : t.fields[i] = "exception")]

RECURSIVE SinksInOrder(_)
SinksInOrder(ss) ==
    IF ss = {} THEN <<>>
    ELSE LET first == CHOOSE s \in ss : \A o \in ss : s.id <= o.id
         IN <<first>> \o SinksInOrder(ss \ {first})

RECURSIVE LinesOf(_, _)
LinesOf(sinkSeq, record) ==
    IF sinkSeq = <<>> THEN <<>>
    ELSE (IF record.level.no >= Head(sinkSeq).levelno
          THEN <<SinkLine(Head(sinkSeq), record)>> ELSE <<>>)
         \o LinesOf(Tail(sinkSeq), record)

\* loguru's logger.log: every sink whose level admits the record writes a line
LoguruLog(ss, record) == LinesOf(SinksInOrder(ss), record)

(***************************************************************************)
(* InterceptHandler                                                        *)
(***************************************************************************)
\* the line of logger.py holding the call of loguru's log in emit
EmitLine == 44

\* InterceptHandler.emit: the loguru record made from a standard record.  The
\* call is made without opt(depth=...), so loguru reads function and line from
\* its caller's frame, which is emit itself.
InterceptHandler_emit(ss, record) ==
    LoguruLog(ss,
        [name |-> "utils.logger",
         function |-> "emit",
         line |-> EmitLine,
         level |-> LoguruLevel(record.levelname, record.levelno),
         message |-> record.msg,
         extra_name |-> record.name,
         exception |-> record.exc_info])

(***************************************************************************)
(* Standard logging: Logger.isEnabledFor, Logger.callHandlers, lastResort  *)
(***************************************************************************)
RECURSIVE EffectiveLevel(_, _)
EffectiveLevel(reg, n) ==
    IF reg[n].level # 0 THEN reg[n].level
    ELSE IF Parent(n) = None THEN 0
    ELSE EffectiveLevel(reg, Parent(n))

RECURSIVE HandlersFor(_, _)
HandlersFor(reg, n) ==
    reg[n].handlers \o
    (IF reg[n].propagate /\ Parent(n) # None THEN HandlersFor(reg, Parent(n)) ELSE <<>>)

\* logging.lastResort: a stderr handler at WARNING printing the bare message
LastResortLine(record) ==
    [via |-> "lastResort",
     sink |-> -1,
     stream |-> "stderr",
     shape |-> <<"message">>,
     logger_name |-> None,
     level |-> record.levelname,
     levelno |-> record.levelno,
     width |-> 0,
     function |-> None,
     line |-> 0,
     message |-> record.msg,
     trace |-> record.exc_info]

RECURSIVE EmitAll(_, _, _)
EmitAll(hs, ss, record) ==
    IF hs = <<>> THEN <<>>
    ELSE InterceptHandler_emit(ss, record) \o EmitAll(Tail(hs), ss, record)

\* a call on the standard logger named record.name
StdLoggerCall(reg, ss, record) ==
    IF record.levelno < EffectiveLevel(reg, record.name) THEN <<>>
    ELSE LET hs == HandlersFor(reg, record.name)
         IN IF hs = <<>>
            THEN (IF record.levelno >= LevelNo("WARNING") THEN <<LastResortLine(record)>> ELSE <<>>)
            ELSE EmitAll(hs, ss, record)

(***************************************************************************)
(* setup_logging                                                           *)
(***************************************************************************)
\* setup_logging without the call of logger.remove()
LoguruRemove_nothing(ss) == ss

\* logger.remove(): every registered sink goes
LoguruRemove(ss) == {}

\* logger.add(sys.stdout, format=format_record, level=level, ...)
LoguruAdd(ss, id, level) ==
    ss \cup {[id |-> id, levelno |-> LevelNo(level), format |-> "format_record", stream |-> "stdout"]}

\* basicConfig(handlers=[InterceptHandler()], level=0, force=True), then
\* logging.getLogger().handlers = [InterceptHandler()]
ConfigureRoot(l) ==
    [l EXCEPT !.handlers = <<"InterceptHandler">>, !.level = 0]

\* the loop over logger_names
ConfigureUnified(l, level) ==
    [handlers |-> <<>> \o <<"InterceptHandler">>,
     level |-> LevelNo(level),
     propagate |-> FALSE]

\* the loop over noisy_logger_names
ConfigureNoisy(l) ==
    [handlers |-> <<>>,
     level |-> LevelNo("WARNING"),
     propagate |-> FALSE]

ConfigureRegistry(reg, level) ==
    [n \in LoggerNames |->
        IF n = "root" THEN ConfigureRoot(reg[n])
        ELSE IF n \in Range(logger_names) THEN ConfigureUnified(reg[n], level)
        ELSE IF n \in Range(noisy_logger_names) THEN ConfigureNoisy(reg[n])
        ELSE reg[n]]

setup_logging(level) ==
    /\ setups < MaxSetups
    /\ sinks' = LoguruAdd(LoguruRemove(sinks), nextSinkId, level)
    /\ nextSinkId' = nextSinkId + 1
    /\ stdLoggers' = ConfigureRegistry(stdLoggers, level)
    /\ setups' = setups + 1
    /\ lastLevel' = level
    /\ out' = <<>>
    /\ lastCall' = [kind |-> "setup", name |-> None, levelname |-> level,
                    levelno |-> LevelNo(level), function |-> None, line |-> 0]

(***************************************************************************)
(* Logging calls                                                           *)
(***************************************************************************)
\* levels a standard record can carry; VERBOSE (15) is a level loguru has no name for
StdLevels ==
    {[name |-> n, no |-> LevelNo(n)] : n \in LoguruLevelNames} \cup {[name |-> "VERBOSE", no |-> 15]}

CallSites == {[function |-> "run_asgi", line |-> 10], [function |-> "send", line |-> 20]}

\* logging.getLogger(n).log(lvl, "msg") at call site cs
StdLog(n, lvl, cs) ==
    /\ setups >= 1
    /\ out' = StdLoggerCall(stdLoggers, sinks,
                [name |-> n, levelname |-> lvl.name, levelno |-> lvl.no,
                 funcName |-> cs.function, lineno |-> cs.line, msg |-> "msg",
                 exc_info |-> FALSE])
    /\ lastCall' = [kind |-> "std", name |-> n, levelname |-> lvl.name, levelno |-> lvl.no,
                    function |-> cs.function, line |-> cs.line]
    /\ UNCHANGED <<sinks, nextSinkId, stdLoggers, setups, lastLevel>>

\* get_logger().log(lvl, "msg") at call site cs of module "server"
AppLog(lvl, cs) ==
    /\ setups >= 1
    /\ out' = LoguruLog(sinks,
                [name |-> "server", function |-> cs.function, line |-> cs.line,
                 level |-> [name |-> lvl, no |-> LevelNo(lvl)], message |-> "msg",
                 extra_name |-> None, exception |-> FALSE])
    /\ lastCall' = [kind |-> "loguru", name |-> "server", levelname |-> lvl, levelno |-> LevelNo(lvl),
                    function |-> cs.function, line |-> cs.line]
    /\ UNCHANGED <<sinks, nextSinkId, stdLoggers, setups, lastLevel>>

(***************************************************************************)
(* config.app: ALLOWED_ORIGINS                                             *)
(***************************************************************************)
\* strings are sequences of characters; "a" and "b" stand for two origins
RECURSIVE Split(_, _)
Split(s, sep) ==
    IF \A i \in DOMAIN s : s[i] # sep THEN <<s>>
    ELSE LET k == CHOOSE i \in DOMAIN s : s[i] = sep /\ \A j \in 1..(i - 1) : s[j] # sep
         IN <<SubSeq(s, 1, k - 1)>> \o Split(SubSeq(s, k + 1, Len(s)), sep)

RECURSIVE LStrip(_, _)
LStrip(s, ch) == IF s # <<>> /\ Head(s) = ch THEN LStrip(Tail(s), ch) ELSE s

RECURSIVE RStrip(_, _)
RStrip(s, ch) == IF s # <<>> /\ s[Len(s)] = ch THEN RStrip(SubSeq(s, 1, Len(s) - 1), ch) ELSE s

Strip(s) == RStrip(LStrip(s, " "), " ")

NonBlank(s) == Strip(s) # <<>>

\* [origin.strip().rstrip("/") for origin in raw.split(",") if origin.strip()]
ParseOrigins(raw) ==
    LET kept == SelectSeq(Split(raw, ","), NonBlank)
    IN [i \in DOMAIN kept |-> RStrip(Strip(kept[i]), "/")]

\* values of the ALLOWED_ORIGINS environment variable: "a" (the default, BASE_WEB_URL),
\* "a/, b" and " ,b//"
RawOriginSettings ==
    {<<"a">>, <<"a", "/", ",", " ", "b">>, <<" ", ",", "b", "/", "/">>}

(***************************************************************************)
(* get_app_version                                                         *)
(***************************************************************************)
\* pyproject.toml as the steps of get_app_version see it
Manifests ==
    {[exists |-> FALSE, readable |-> FALSE, utf8 |-> FALSE, toml |-> FALSE, project |-> "absent", version |-> None],
     [exists |-> TRUE, readable |-> FALSE, utf8 |-> FALSE, toml |-> FALSE, project |-> "absent", version |-> None],
     [exists |-> TRUE, readable |-> TRUE, utf8 |-> FALSE, toml |-> FALSE, project |-> "absent", version |-> None],
     [exists |-> TRUE, readable |-> TRUE, utf8 |-> TRUE, toml |-> FALSE, project |-> "absent", version |-> None],
     [exists |-> TRUE, readable |-> TRUE, utf8 |-> TRUE, toml |-> TRUE, project |-> "absent", version |-> None],
     [exists |-> TRUE, readable |-> TRUE, utf8 |-> TRUE, toml |-> TRUE, project |-> "string", version |-> None],
     [exists |-> TRUE, readable |-> TRUE, utf8 |-> TRUE, toml |-> TRUE, project |-> "table", version |-> None],
     [exists |-> TRUE, readable |-> TRUE, utf8 |-> TRUE, toml |-> TRUE, project |-> "table", version |-> "1.2.3"]}

\* the exception open() or tomllib.load() raises on the manifest, or None
LoadError(m) ==
    IF ~m.exists THEN "FileNotFoundError"
    ELSE IF ~m.readable THEN "PermissionError"
    ELSE IF ~m.utf8 THEN "UnicodeDecodeError"
    ELSE IF ~m.toml THEN "TOMLDecodeError"
    ELSE None

\* the exception classes the except clause names
CaughtByGetAppVersion == {"FileNotFoundError", "TOMLDecodeError"}

\* get_app_version: the value returned, or the exception that leaves it, and
\* whether the warning was logged
get_app_version(m) ==
    IF LoadError(m) \in CaughtByGetAppVersion
    THEN [raised |-> None, value |-> "0.0.0", warned |-> TRUE]
    ELSE IF LoadError(m) # None
    THEN [raised |-> LoadError(m), value |-> None, warned |-> FALSE]
    ELSE IF m.project = "absent"
    THEN [raised |-> None, value |-> "0.0.0", warned |-> FALSE]
    ELSE IF m.project # "table"
    THEN [raised |-> "AttributeError", value |-> None, warned |-> FALSE]
    ELSE [raised |-> None, value |-> IF m.version # None THEN m.version ELSE "0.0.0",
          warned |-> FALSE]

(***************************************************************************)
(* Application log calls of server.py                                      *)
(***************************************************************************)
Msg(fmt, status, args, trace) == [fmt |-> fmt, status |-> status, args |-> args, trace |-> trace]

\* logger.<level>(message) in function fn at line ln of server.py
ServerLog(ss, lvl, fn, ln, message) ==
    LoguruLog(ss, [name |-> "server", function |-> fn, line |-> ln,
                   level |-> [name |-> lvl, no |-> LevelNo(lvl)], message |-> message,
                   extra_name |-> None, exception |-> FALSE])

(***************************************************************************)
(* Import of server.py: logging, version, application and middleware       *)
(***************************************************************************)
\* app.add_middleware: user_middleware.insert(0, ...)
add_middleware(user_middleware, m) == <<m>> \o user_middleware

user_middleware == add_middleware(add_middleware(<<>>, "HTTP2PRIMiddleware"), "CORSMiddleware")

\* the stack the application builds: the handler registered for Exception sits in
\* ServerErrorMiddleware, outside every added middleware; the handlers for
\* StarletteHTTPException and RequestValidationError sit in ExceptionMiddleware,
\* inside them
middleware_stack ==
    <<"ServerErrorMiddleware">> \o user_middleware \o <<"ExceptionMiddleware", "Router">>

Envs == [LOG_LEVEL : ConfigLevels, ALLOWED_ORIGINS_RAW : RawOriginSettings, manifest : Manifests]

Startup ==
    /\ pc = "boot"
    /\ setup_logging(env.LOG_LEVEL)
    /\ ALLOWED_ORIGINS' = ParseOrigins(env.ALLOWED_ORIGINS_RAW)
    /\ LET v == get_app_version(env.manifest)
       IN /\ bootLog' = ServerLog(sinks', "INFO", "<module>", 22, Msg("Logging initialized with level", 0, <<>>, FALSE))
                        \o ServerLog(sinks', "INFO", "<module>", 23, Msg("CORS allowed origins", 0, <<>>, FALSE))
                        \o (IF v.warned
                            THEN ServerLog(sinks', "WARNING", "get_app_version", 38,
                                           Msg("Could not read version from pyproject.toml", 0, <<>>, FALSE))
                            ELSE <<>>)
          /\ APP_VERSION' = v.value
          /\ pc' = IF v.raised = None THEN "idle" ELSE "crashed"
    /\ UNCHANGED <<env, req, pos, exc, thrown, resp, corsWrapped, visited, log, client>>

(***************************************************************************)
(* Requests, responses, exceptions                                         *)
(***************************************************************************)
NoOrigin == <<>>

\* OPTIONS requests may carry Access-Control-Request-Method (acrm)
Requests ==
    {r \in [method : {"GET", "POST", "OPTIONS", "PRI"},
            path : {"/", "*", "/items"},
            origin : {NoOrigin, <<"a">>, <<"b">>},
            acrm : {None, "GET", "TRACE"}] :
        r.acrm # None => r.method = "OPTIONS"}

NoReq == [method |-> None, path |-> None, origin |-> NoOrigin, acrm |-> None]

NoExc == [kind |-> "none", status |-> 0, detail |-> "", errors |-> <<>>, body |-> "", cls |-> "", msg |-> ""]

HTTPException(status, detail) ==
    [kind |-> "http", status |-> status, detail |-> detail, errors |-> <<>>, body |-> "",
     cls |-> "HTTPException", msg |-> ""]

RequestValidationError(errors, body) ==
    [kind |-> "validation", status |-> 0, detail |-> "", errors |-> errors, body |-> body,
     cls |-> "RequestValidationError", msg |-> ""]

OtherException(cls, msg) ==
    [kind |-> "other", status |-> 0, detail |-> "", errors |-> <<>>, body |-> "",
     cls |-> cls, msg |-> msg]

NoResp == [status |-> 0, body |-> [kind |-> "none"], acao |-> NoOrigin, credentials |-> FALSE, by |-> "none"]

Response(status, body, by) ==
    [status |-> status, body |-> body, acao |-> NoOrigin, credentials |-> FALSE, by |-> by]

\* JSONResponse(status_code=..., content=...)
JSONResponse(status, content, by) == Response(status, [kind |-> "json", content |-> content], by)

\* Response / PlainTextResponse with a text body
TextResponse(status, text, by) == Response(status, [kind |-> "text", content |-> text], by)

(***************************************************************************)
(* The exception handlers' responses and log lines                         *)
(***************************************************************************)
\* the handler answering with a fixed status instead of the exception's
http_exception_response_fixed_status(e) ==
    JSONResponse(500, [detail |-> e.detail], "http_exception_handler")

http_exception_response(e) ==
    JSONResponse(e.status, [detail |-> e.detail], "http_exception_handler")

http_exception_log(ss, r, e) ==
    ServerLog(ss, "ERROR", "http_exception_handler", 72, Msg("HTTP {} error: {}", e.status, <<e.detail>>, FALSE))
    \o ServerLog(ss, "ERROR", "http_exception_handler", 73, Msg("Request path: {}", 0, <<r.path>>, FALSE))
    \o ServerLog(ss, "ERROR", "http_exception_handler", 74, Msg("Request method: {}", 0, <<r.method>>, FALSE))

\* the handler answering with the field errors in another order
validation_exception_response_reordered(e) ==
    JSONResponse(422, [detail |-> [i \in DOMAIN e.errors |-> e.errors[Len(e.errors) + 1 - i]]],
                 "validation_exception_handler")

validation_exception_response(e) ==
    JSONResponse(422, [detail |-> e.errors], "validation_exception_handler")

validation_exception_log(ss, r, e) ==
    ServerLog(ss, "ERROR", "validation_exception_handler", 84, Msg("Validation error on {}", 0, <<r.path>>, FALSE))
    \o ServerLog(ss, "ERROR", "validation_exception_handler", 85, Msg("Validation errors: {}", 0, e.errors, FALSE))
    \o ServerLog(ss, "ERROR", "validation_exception_handler", 86, Msg("Request body: {}", 0, <<e.body>>, FALSE))

general_exception_response(e) ==
    JSONResponse(500,
        [detail |-> "Internal server error", error_type |-> e.cls, error_message |-> e.msg],
        "general_exception_handler")

\* the last message embeds the formatted traceback (tb_str)
general_exception_log(ss, r, e) ==
    ServerLog(ss, "ERROR", "general_exception_handler", 97, Msg("Unhandled exception in {} {}", 0, <<r.method, r.path>>, FALSE))
    \o ServerLog(ss, "ERROR", "general_exception_handler", 98, Msg("Exception type: {}", 0, <<e.cls>>, FALSE))
    \o ServerLog(ss, "ERROR", "general_exception_handler", 99, Msg("Exception message: {}", 0, <<e.msg>>, FALSE))
    \o ServerLog(ss, "ERROR", "general_exception_handler", 100, Msg("Full traceback:\n{}", 0, <<e.cls, e.msg>>, TRUE))

(***************************************************************************)
(* HTTP2PRIMiddleware and CORSMiddleware                                   *)
(***************************************************************************)
\* the filter testing the method alone
IsPRIProbe_method_only(r) == r.method = "PRI"

IsPRIProbe(r) == r.method = "PRI" /\ r.path = "*"

allow_methods == {"GET", "POST", "PUT", "PATCH", "DELETE", "OPTIONS"}

is_allowed_origin(origins, origin) == origin \in Range(origins)

\* CORSMiddleware.preflight_response with the configured policy
preflight_response(origins, r) ==
    LET okOrigin == is_allowed_origin(origins, r.origin)
        okMethod == r.acrm \in allow_methods
        base == IF okOrigin /\ okMethod
                THEN TextResponse(200, "OK", "CORSMiddleware")
                ELSE TextResponse(400, "Disallowed CORS", "CORSMiddleware")
    IN [base EXCEPT !.acao = IF okOrigin THEN r.origin ELSE NoOrigin, !.credentials = TRUE]

\* CORSMiddleware.send: the headers added to a response that passes through it
cors_send(origins, r, response) ==
    [response EXCEPT !.acao = IF is_allowed_origin(origins, r.origin) THEN r.origin ELSE @,
                     !.credentials = TRUE]

(***************************************************************************)
(* Routes                                                                  *)
(***************************************************************************)
\* "/" is server.root; "/items" stands for the routes of api.routes
routes == [path : {"/"}, methods : {{"GET"}}] \cup [path : {"/items"}, methods : {{"GET", "POST"}}]

\* what a route handler of api.routes may do with a request
Outcomes ==
    {[kind |-> "ok", exc |-> NoExc]}
    \cup {[kind |-> "raise", exc |-> HTTPException(s, d)] :
            s \in {401, 500}, d \in {"denied", "failed"}}
    \cup {[kind |-> "raise", exc |-> RequestValidationError(es, "raw")] :
            es \in {<<"e1">>, <<"e1", "e2">>, <<"e2", "e1">>}}
    \cup {[kind |-> "raise", exc |-> OtherException(c, m)] :
            c \in {"ValueError", "KeyError"}, m \in {"m1", "m2"}}

(***************************************************************************)
(* The request pipeline                                                    *)
(***************************************************************************)
Stage == IF pos \in DOMAIN middleware_stack THEN middleware_stack[pos] ELSE None

Seen(stage) == [stage |-> stage, req |-> req]

\* the stage at pos receives the request
Enter(stage) ==
    /\ pc = "down"
    /\ Stage = stage
    /\ visited' = Append(visited, Seen(stage))

\* the stage hands the request, as it is, to the next stage
CallNext ==
    /\ pos' = pos + 1
    /\ pc' = "down"
    /\ UNCHANGED <<req, exc, resp>>

\* the stage returns a response or raises
Return(response, raised) ==
    /\ pos' = pos - 1
    /\ pc' = "up"
    /\ resp' = response
    /\ exc' = raised
    /\ UNCHANGED req

Receive(r) ==
    /\ pc \in {"idle", "done"}
    /\ pc' = "down"
    /\ req' = r
    /\ pos' = 1
    /\ exc' = NoExc
    /\ thrown' = NoExc
    /\ resp' = NoResp
    /\ corsWrapped' = FALSE
    /\ visited' = <<>>
    /\ log' = <<>>
    /\ client' = NoResp
    /\ UNCHANGED <<logvars, bootvars>>

ServerErrorMiddleware_call ==
    /\ Enter("ServerErrorMiddleware")
    /\ CallNext
    /\ UNCHANGED <<logvars, bootvars, corsWrapped, log, client>>
    /\ UNCHANGED thrown

CORSMiddleware_call ==
    /\ Enter("CORSMiddleware")
    /\ IF req.origin = NoOrigin
       THEN CallNext /\ UNCHANGED corsWrapped
       ELSE IF req.method = "OPTIONS" /\ req.acrm # None
       THEN Return(preflight_response(ALLOWED_ORIGINS, req), NoExc) /\ UNCHANGED corsWrapped
       ELSE CallNext /\ corsWrapped' = TRUE
    /\ UNCHANGED <<logvars, bootvars, log, client>>
    /\ UNCHANGED thrown

HTTP2PRIMiddleware_dispatch ==
    /\ Enter("HTTP2PRIMiddleware")
    /\ IF IsPRIProbe(req)
       THEN Return(TextResponse(400, "Bad Request", "HTTP2PRIMiddleware"), NoExc)
       ELSE CallNext
    /\ UNCHANGED <<logvars, bootvars, corsWrapped, log, client>>
    /\ UNCHANGED thrown

ExceptionMiddleware_call ==
    /\ Enter("ExceptionMiddleware")
    /\ CallNext
    /\ UNCHANGED <<logvars, bootvars, corsWrapped, log, client>>
    /\ UNCHANGED thrown

\* GET /
root ==
    /\ Enter("Router")
    /\ req.path = "/" /\ req.method = "GET"
    /\ Return(JSONResponse(200, [message |-> "Backend API service for tarot.vn", version |-> APP_VERSION], "root"),
              NoExc)
    /\ UNCHANGED <<logvars, bootvars, corsWrapped, log, client>>
    /\ UNCHANGED thrown

\* no route matches: the router raises 404, or 405 when only the method differs
Router_not_found ==
    /\ Enter("Router")
    /\ ~\E rt \in routes : rt.path = req.path /\ req.method \in rt.methods
    /\ Return(NoResp,
              IF \E rt \in routes : rt.path = req.path
              THEN HTTPException(405, "Method Not Allowed")
              ELSE HTTPException(404, "Not Found"))
    /\ UNCHANGED <<logvars, bootvars, corsWrapped, log, client>>
    /\ thrown' = exc'

\* a route of api.routes handles the request
RouteHandler(o) ==
    /\ Enter("Router")
    /\ req.path = "/items" /\ req.method \in {"GET", "POST"}
    /\ Return(IF o.kind = "ok" THEN JSONResponse(200, [items |-> "items"], "route") ELSE NoResp, o.exc)
    /\ UNCHANGED <<logvars, bootvars, corsWrapped, log, client>>
    /\ thrown' = exc'

\* the stage at pos gets back what the stage below returned or raised
Back(stage) ==
    /\ pc = "up"
    /\ Stage = stage

http_exception_handler ==
    /\ Back("ExceptionMiddleware")
    /\ exc.kind = "http"
    /\ log' = log \o http_exception_log(sinks, req, exc)
    /\ Return(http_exception_response(exc), NoExc)
    /\ UNCHANGED <<logvars, bootvars, corsWrapped, visited, client>>
    /\ UNCHANGED thrown

validation_exception_handler ==
    /\ Back("ExceptionMiddleware")
    /\ exc.kind = "validation"
    /\ log' = log \o validation_exception_log(sinks, req, exc)
    /\ Return(validation_exception_response(exc), NoExc)
    /\ UNCHANGED <<logvars, bootvars, corsWrapped, visited, client>>
    /\ UNCHANGED thrown

\* a response, or an exception no handler of ExceptionMiddleware is registered for
ExceptionMiddleware_return ==
    /\ Back("ExceptionMiddleware")
    /\ exc.kind \notin {"http", "validation"}
    /\ Return(resp, exc)
    /\ UNCHANGED <<logvars, bootvars, corsWrapped, visited, log, client>>
    /\ UNCHANGED thrown

HTTP2PRIMiddleware_return ==
    /\ Back("HTTP2PRIMiddleware")
    /\ Return(resp, exc)
    /\ UNCHANGED <<logvars, bootvars, corsWrapped, visited, log, client>>
    /\ UNCHANGED thrown

\* the wrapped send adds the CORS headers to the response passing through
CORSMiddleware_send ==
    /\ Back("CORSMiddleware")
    /\ Return(IF corsWrapped /\ exc = NoExc THEN cors_send(ALLOWED_ORIGINS, req, resp) ELSE resp, exc)
    /\ UNCHANGED <<logvars, bootvars, corsWrapped, visited, log, client>>
    /\ UNCHANGED thrown

ServerErrorMiddleware_return ==
    /\ Back("ServerErrorMiddleware")
    /\ exc = NoExc
    /\ Return(resp, exc)
    /\ UNCHANGED <<logvars, bootvars, corsWrapped, visited, log, client>>
    /\ UNCHANGED thrown

\* ServerErrorMiddleware calls the handler registered for Exception, sends its
\* response and raises the exception again
general_exception_handler ==
    /\ Back("ServerErrorMiddleware")
    /\ exc # NoExc
    /\ log' = log \o general_exception_log(sinks, req, exc)
    /\ Return(general_exception_response(exc), exc)
    /\ UNCHANGED <<logvars, bootvars, corsWrapped, visited, client>>
    /\ UNCHANGED thrown

\* the server: the caller has the response; an exception that left the
\* application is logged on "uvicorn.error" with exc_info
Respond ==
    /\ pc = "up"
    /\ pos = 0
    /\ client' = resp
    /\ log' = log \o
         (IF exc # NoExc
          THEN StdLoggerCall(stdLoggers, sinks,
                 [name |-> "uvicorn.error", levelname |-> "ERROR", levelno |-> LevelNo("ERROR"),
                  funcName |-> "run_asgi", lineno |-> 0,
                  msg |-> Msg("Exception in ASGI application\n", 0, <<>>, FALSE),
                  exc_info |-> TRUE])
          ELSE <<>>)
    /\ pc' = "done"
    /\ UNCHANGED <<logvars, bootvars, req, pos, exc, resp, corsWrapped, visited>>
    /\ UNCHANGED thrown

LogInit ==
    /\ sinks = FreshSinks
    /\ nextSinkId = 1
    /\ stdLoggers = FreshRegistry
    /\ setups = 0
    /\ lastLevel = None
    /\ out = <<>>
    /\ lastCall = [kind |-> "none", name |-> None, levelname |-> None, levelno |-> 0,
                   function |-> None, line |-> 0]

BootInit ==
    /\ env \in Envs
    /\ ALLOWED_ORIGINS = <<>>
    /\ APP_VERSION = None
    /\ bootLog = <<>>
    /\ pc = "boot"
    /\ req = NoReq
    /\ pos = 0
    /\ exc = NoExc
    /\ thrown = NoExc
    /\ resp = NoResp
    /\ corsWrapped = FALSE
    /\ visited = <<>>
    /\ log = <<>>
    /\ client = NoResp

Init == LogInit /\ BootInit

Next ==
    \/ Startup
    \/ \E r \in Requests : Receive(r)
    \/ ServerErrorMiddleware_call
    \/ CORSMiddleware_call
    \/ HTTP2PRIMiddleware_dispatch
    \/ ExceptionMiddleware_call
    \/ root
    \/ Router_not_found
    \/ \E o \in Outcomes : RouteHandler(o)
    \/ http_exception_handler
    \/ validation_exception_handler
    \/ ExceptionMiddleware_return
    \/ HTTP2PRIMiddleware_return
    \/ CORSMiddleware_send
    \/ ServerErrorMiddleware_return
    \/ general_exception_handler
    \/ Respond

Spec == Init /\ [][Next]_vars

\* the logging shim alone: setup_logging and logging calls in any order
LogNext ==
    \/ \E level \in ConfigLevels : setup_logging(level) /\ UNCHANGED <<bootvars, pc, reqvars>>
    \/ \E n \in LoggerNames, lvl \in StdLevels, cs \in CallSites :
          StdLog(n, lvl, cs) /\ UNCHANGED <<bootvars, pc, reqvars>>
    \/ \E lvl \in LoguruLevelNames, cs \in CallSites :
          AppLog(lvl, cs) /\ UNCHANGED <<bootvars, pc, reqvars>>

DefaultEnv ==
    [LOG_LEVEL |-> "INFO", ALLOWED_ORIGINS_RAW |-> <<"a">>,
     manifest |-> CHOOSE m \in Manifests : m.version # None]

LogSpecInit == LogInit /\ BootInit /\ env = DefaultEnv

SpecLog == LogSpecInit /\ [][LogNext]_vars

(***************************************************************************)
(* Properties                                                              *)
(***************************************************************************)
\* a PRI * request, by its method and path
ProbeRequest(r) == r.method = "PRI" /\ r.path = "*"

Stages == {visited[i].stage : i \in DOMAIN visited}

IndexOf(stage) == CHOOSE i \in DOMAIN middleware_stack : middleware_stack[i] = stage

\* a written line shows a stack trace: as the rendered exception field or
\* inside the message text
ShowsTrace(l) == l.trace \/ l.message.trace

TraceCount == Cardinality({i \in DOMAIN log : ShowsTrace(log[i])})

Json(content) == [kind |-> "json", content |-> content]

Text(content) == [kind |-> "text", content |-> content]

\* C1: a request whose handler raised an exception that is neither an HTTP
\* failure nor a validation failure is answered with status 500 and the body
\* {"detail": "Internal server error", "error_type": C, "error_message": M},
\* and when its handling has ended the log shows the stack trace exactly once.
C1_UnhandledIs500TraceOnce ==
    (pc = "done" /\ thrown.kind = "other") =>
        /\ client.status = 500
        /\ client.body = Json([detail |-> "Internal server error",
                               error_type |-> thrown.cls, error_message |-> thrown.msg])
        /\ TraceCount = 1

C1_Witness ==
    /\ pc = "done"
    /\ thrown.kind = "other"
    /\ thrown.cls = "KeyError"
    /\ client.status = 500
    /\ Len(log) = 5
    /\ TraceCount = 1

\* C2: the admission filter (HTTP2PRIMiddleware) receives every request before
\* the CORS stage does, and the CORS stage never receives a PRI * request.
C2_FilterBeforeCORS ==
    /\ \A i, j \in DOMAIN visited :
          (visited[i].stage = "HTTP2PRIMiddleware" /\ visited[j].stage = "CORSMiddleware") => i < j
    /\ ProbeRequest(req) => "CORSMiddleware" \notin Stages

\* C3: the response the caller receives carries Access-Control-Allow-Origin
\* equal to the request's Origin when that origin is in ALLOWED_ORIGINS,
\* whatever the outcome, and carries no such header otherwise.
C3_AllowOriginOnEveryOutcome ==
    pc = "done" =>
        IF is_allowed_origin(ALLOWED_ORIGINS, req.origin)
        THEN client.acao = req.origin
        ELSE client.acao = NoOrigin

\* C6: a declared HTTP failure with status S and detail D (the router's 404 and
\* 405 included) is answered by http_exception_handler with status S and body
\* {"detail": D}; when that response exists, error lines with S and D, the
\* path and the method have been written; general_exception_handler never
\* runs for it.
C6_HttpFailureTranslated ==
    thrown.kind = "http" =>
        /\ resp # NoResp =>
              /\ resp.by = "http_exception_handler"
              /\ resp.status = thrown.status
              /\ resp.body = Json([detail |-> thrown.detail])
              /\ \E i \in DOMAIN log :
                    /\ log[i].level = "ERROR"
                    /\ log[i].message.status = thrown.status
                    /\ thrown.detail \in Range(log[i].message.args)
              /\ \E i \in DOMAIN log :
                    log[i].level = "ERROR" /\ log[i].message.args = <<req.path>>
              /\ \E i \in DOMAIN log :
                    log[i].level = "ERROR" /\ log[i].message.args = <<req.method>>
        /\ pc = "done" =>
              /\ client.status = thrown.status
              /\ client.body = Json([detail |-> thrown.detail])
              /\ client.by = "http_exception_handler"
        /\ \A i \in DOMAIN log : log[i].function # "general_exception_handler"

C6_Witness ==
    /\ pc = "done"
    /\ thrown.kind = "http"
    /\ thrown.status = 405
    /\ client.status = 405
    /\ client.body = Json([detail |-> "Method Not Allowed"])
    /\ Len(log) = 3

C8_PRIProbeRejected ==
    /\ ProbeRequest(req) =>
          /\ "Router" \notin Stages
          /\ pc = "done" => (client.status = 400 /\ client.body = Text("Bad Request"))
    /\ \A i \in DOMAIN visited :
          (visited[i].stage = "HTTP2PRIMiddleware" /\ ~ProbeRequest(visited[i].req)) =>
              IF i < Len(visited)
              THEN visited[i + 1] =
                      [stage |-> middleware_stack[IndexOf("HTTP2PRIMiddleware") + 1],
                       req |-> visited[i].req]
              ELSE /\ pc = "down"
                   /\ pos = IndexOf("HTTP2PRIMiddleware") + 1
                   /\ req = visited[i].req
                   /\ resp = NoResp

C8_Witness ==
    /\ pc = "done"
    /\ ProbeRequest(req)
    /\ req.origin # NoOrigin
    /\ is_allowed_origin(ALLOWED_ORIGINS, req.origin)
    /\ client.status = 400
    /\ client.body = Text("Bad Request")
    /\ "HTTP2PRIMiddleware" \in Stages

\* C9: importing server.py never fails because of pyproject.toml:
\* get_app_version returns project.version of a readable, well-formed manifest
\* and "0.0.0", after a warning, for every other manifest; GET / then answers
\* 200 with that version.
WellFormed(m) == m.exists /\ m.readable /\ m.utf8 /\ m.toml /\ m.project = "table" /\ m.version # None

C9_StartupNeverFails ==
    /\ pc # "crashed"
    /\ pc # "boot" =>
          /\ APP_VERSION = (IF WellFormed(env.manifest) THEN env.manifest.version ELSE "0.0.0")
          /\ ~WellFormed(env.manifest) =>
                \E i \in DOMAIN bootLog : bootLog[i].level = "WARNING"
    /\ (pc = "done" /\ req.method = "GET" /\ req.path = "/") =>
          /\ client.status = 200
          /\ client.body.content.version = APP_VERSION

\* C4: once setup_logging has run, every line a logging call writes comes out
\* of the one loguru sink in the shape
\* time | level padded to 8 | logger_name:function:line - message.
C4_OneSinkOneShape ==
    setups >= 1 =>
        \A i \in DOMAIN out :
            /\ out[i].via = "loguru"
            /\ out[i].stream = "stdout"
            /\ out[i].shape = <<"time", "level", "logger_name", "function", "line", "message">>
            /\ out[i].width >= LevelPad

\* C5: a line re-emitted for a standard logger's record carries the record's
\* logger name, severity, function name and line number.
C5_InterceptKeepsCallSite ==
    lastCall.kind = "std" =>
        \A i \in DOMAIN out :
            out[i].via = "loguru" =>
                /\ out[i].logger_name = lastCall.name
                /\ out[i].levelno = lastCall.levelno
                /\ out[i].function = lastCall.function
                /\ out[i].line = lastCall.line

\* C10: after one or more setup_logging calls there is exactly one loguru sink,
\* at the level of the last call; the root logger and each of uvicorn,
\* uvicorn.access, uvicorn.error, fastapi and asyncio have exactly one
\* InterceptHandler, the named ones with propagate off; a logging call writes at
\* most one line, and exactly one when made on one of these loggers or on the
\* loguru logger at or above the configured level.
C10_SetupReplaces ==
    setups >= 1 =>
        /\ Cardinality(sinks) = 1
        /\ \A s \in sinks : s.levelno = LevelNo(lastLevel) /\ s.format = "format_record"
        /\ stdLoggers["root"].handlers = <<"InterceptHandler">>
        /\ \A n \in Range(logger_names) :
              stdLoggers[n].handlers = <<"InterceptHandler">> /\ ~stdLoggers[n].propagate
        /\ Len(out) <= 1
        /\ (/\ lastCall.kind \in {"std", "loguru"}
            /\ lastCall.name \in {"root", "server"} \cup Range(logger_names)
            /\ lastCall.levelno >= LevelNo(lastLevel)) => Len(out) = 1

C10_Witness ==
    /\ setups = 2
    /\ lastCall.kind = "std"
    /\ lastCall.name = "uvicorn.error"
    /\ lastCall.levelno = LevelNo("ERROR")
    /\ Len(out) = 1
    /\ Cardinality(sinks) = 1

====
